---- MODULE Spec2Model ----
(***************************************************************************)
(* Model of the Tropic01 C++ wrapper (LibtropicArduino.h / .cpp): the      *)
(* session handle, begin/end, the secure-session calls and the             *)
(* channel-scoped dispatcher methods.  The wrapper itself is modelled from *)
(* the source; the Libtropic engine behind the lt_* calls is an external   *)
(* collaborator, modelled by its contract: every lt_* call yields one of   *)
(* the outcomes of EngineOutcomes, chosen nondeterministically.            *)
(***************************************************************************)
EXTENDS Integers, Sequences, FiniteSets, TLC

----------------------------------------------------------------------------
(* Bounds of the model *)

MaxTransportCalls == 3
MaxMsgLen == 2

----------------------------------------------------------------------------
(* Values *)

LT_OK == "LT_OK"
ChipError == "ChipError"
TransportError == "TransportError"
PreconditionError == "PreconditionError"

EngineOutcomes == {LT_OK, ChipError, TransportError}

LT_SECURE_SESSION_ON == "LT_SECURE_SESSION_ON"
LT_SECURE_SESSION_OFF == "LT_SECURE_SESSION_OFF"

TR01_ECC_SLOT_31 == 31
SignatureLen == 64
Ed25519KeyLen == 32

\* slot arguments a caller may pass: the first, the last and one past the last
Slots == {0, TR01_ECC_SLOT_31, TR01_ECC_SLOT_31 + 1}

\* sizes of the buffer the caller really owns behind rs[] / key[]
BufCaps == {Ed25519KeyLen, SignatureLen}

Bytes == {0, 1}

RECURSIVE SeqsUpTo(_)
SeqsUpTo(n) ==
    IF n = 0 THEN {<<>>}
    ELSE LET shorter == SeqsUpTo(n - 1)
         IN  shorter \cup {Append(s, b) : s \in {t \in shorter : Len(t) = n - 1}, b \in Bytes}

Payloads == SeqsUpTo(MaxMsgLen)

\* lengths of the message handed to a signature: the shortest and the longest
MsgLens == {1, MaxMsgLen}

DispatcherOps == {"ping", "eccKeyGenerate", "eccKeyStore", "eccKeyRead",
                  "eccKeyErase", "ecdsaSign", "eddsaSign"}

----------------------------------------------------------------------------
(* State *)

VARIABLES
    session_status,   \* handle.l3.session_status
    initialized,      \* transport resources held (lt_init done, lt_deinit not)
    alive,            \* the Tropic01 object exists
    transportCalls,   \* number of request/response exchanges on the transport
    channel,          \* a channel-open has succeeded and no abort has closed it since
    last              \* the last completed call: what it was given, what it
                      \* called in the engine, and what it returned

vars == <<session_status, initialized, alive, transportCalls, channel, last>>

\* one call into the engine: which function, with which arguments, what it gave
Call(fn, arg, r) == [fn |-> fn, arg |-> arg, ret |-> r]

NoCall == [op |-> "Tropic01", prev |-> "none", entryChannel |-> FALSE,
           entryStatus |-> LT_SECURE_SESSION_OFF,
           entryInit |-> FALSE, entryXfer |-> 0, arg |-> <<>>, cap |-> 0,
           calls |-> <<>>, ret |-> LT_OK, msgIn |-> <<>>]

\* The constructor wires device, handle.l2.device and handle.l3.crypto_ctx and
\* nothing else: handle.l3.session_status is never assigned, so an object with
\* automatic storage starts with an indeterminate flag.  The wrapper only ever
\* compares the flag with LT_SECURE_SESSION_ON, so LT_SECURE_SESSION_OFF stands
\* for every other value.
Init ==
    /\ session_status \in {LT_SECURE_SESSION_OFF, LT_SECURE_SESSION_ON}
    /\ initialized = FALSE
    /\ alive = TRUE
    /\ transportCalls = 0
    /\ channel = FALSE
    /\ last = [NoCall EXCEPT !.entryStatus = session_status]

----------------------------------------------------------------------------
(* The engine's contract (Libtropic, behind the lt_* calls) *)

\* lt_init: sets up transport and context, never opens a channel
InitStatus(status, r) ==
    IF status = LT_SECURE_SESSION_OFF THEN {LT_SECURE_SESSION_OFF}
    ELSE {LT_SECURE_SESSION_OFF, LT_SECURE_SESSION_ON}

InitResources(held, r) == IF r = LT_OK THEN TRUE ELSE held

\* lt_deinit: releases the transport resources
DeinitResources(held, r) == IF r = LT_OK THEN FALSE ELSE held

\* lt_session_abort: the handle no longer owns a channel, whatever the outcome
AbortStatus(status, r) == LT_SECURE_SESSION_OFF

\* lt_verify_chip_and_start_secure_session: the channel is open on success;
\* a failure from a closed handle leaves it closed
StartStatus(status, r) ==
    IF r = LT_OK THEN {LT_SECURE_SESSION_ON}
    ELSE IF status = LT_SECURE_SESSION_OFF THEN {LT_SECURE_SESSION_OFF}
    ELSE {LT_SECURE_SESSION_OFF, LT_SECURE_SESSION_ON}

\* every engine call but lt_init / lt_deinit is one request/response exchange
Exchanging(fn) == fn \notin {"lt_init", "lt_deinit"}

RECURSIVE Exchanges(_)
Exchanges(calls) ==
    IF calls = <<>> THEN 0
    ELSE (IF Exchanging(Head(calls).fn) THEN 1 ELSE 0) + Exchanges(Tail(calls))

RECURSIVE CountFn(_, _)
CountFn(calls, fn) ==
    IF calls = <<>> THEN 0
    ELSE (IF Head(calls).fn = fn THEN 1 ELSE 0) + CountFn(Tail(calls), fn)

\* the engine's channel after a sequence of calls: a successful channel-open
\* leaves one outstanding, a successful abort closes it; a failed abort leaves
\* the chip side as it was
RECURSIVE ChannelAfter(_, _)
ChannelAfter(ch, calls) ==
    IF calls = <<>> THEN ch
    ELSE LET c == Head(calls)
             next == IF c.ret # LT_OK THEN ch
                     ELSE IF c.fn = "lt_verify_chip_and_start_secure_session" THEN TRUE
                     ELSE IF c.fn = "lt_session_abort" THEN FALSE
                     ELSE ch
         IN  ChannelAfter(next, Tail(calls))

PrimitiveStatus_ClosesOnError(status, r) ==
    IF r = LT_OK THEN status ELSE LT_SECURE_SESSION_OFF

\* a request/response primitive (lt_ping, lt_ecc_*) does not touch the status
PrimitiveStatus(status, r) == status

\* lt_ping echoes the outbound message into msgIn when it succeeds
PingEcho(msgOut, r) == IF r = LT_OK THEN msgOut ELSE <<>>

----------------------------------------------------------------------------
(* The wrapper *)

Delegate_TruncatesArg(fn, arg, r) ==
    [calls |-> <<Call(fn, IF arg = <<>> THEN arg ELSE SubSeq(arg, 1, Len(arg) - 1), r)>>,
     ret |-> r]

Delegate_Reinterprets(fn, arg, r) ==
    [calls |-> <<Call(fn, arg, r)>>, ret |-> IF r = LT_OK THEN LT_OK ELSE ChipError]

Delegate_SwallowError(fn, arg, r) == [calls |-> <<Call(fn, arg, r)>>, ret |-> LT_OK]

Delegate_Retry(fn, arg, r) ==
    [calls |-> IF r # LT_OK THEN <<Call(fn, arg, r), Call(fn, arg, r)>>
               ELSE <<Call(fn, arg, r)>>,
     ret |-> r]

\* a one-line method "return lt_xxx(&this->handle, args...)": one engine call,
\* whose outcome is the method's return value
Delegate(fn, arg, r) == [calls |-> <<Call(fn, arg, r)>>, ret |-> r]

EndAborts_Always(status) == TRUE

EndAborts_Never(status) == FALSE

\* end(): the condition of the abort step
EndAborts(status) == status = LT_SECURE_SESSION_ON

EndCalls_DeinitFirst(status, ra, rd) ==
    <<Call("lt_deinit", <<>>, rd)>>
        \o (IF status = LT_SECURE_SESSION_ON
            THEN <<Call("lt_session_abort", <<>>, ra)>> ELSE <<>>)

EndCalls_SkipDeinitWhenClosed(status, ra, rd) ==
    IF status = LT_SECURE_SESSION_ON
    THEN <<Call("lt_session_abort", <<>>, ra), Call("lt_deinit", <<>>, rd)>>
    ELSE <<>>

\* end(): the engine calls made, in order
EndCalls(status, ra, rd) ==
    (IF EndAborts(status) THEN Delegate("lt_session_abort", <<>>, ra).calls ELSE <<>>)
        \o <<Call("lt_deinit", <<>>, rd)>>

\* end(): ret_abort as it stands after the abort step
EndRetAbort(status, ra) ==
    IF EndAborts(status) THEN Delegate("lt_session_abort", <<>>, ra).ret ELSE LT_OK

EndResult_DeinitFirst(ret_abort, ret_deinit) ==
    IF ret_deinit # LT_OK THEN ret_deinit ELSE ret_abort

EndResult_IgnoreDeinit(ret_abort, ret_deinit) == ret_abort

\* end(): the error-priority rule of the two returns
EndResult(ret_abort, ret_deinit) ==
    IF ret_abort # LT_OK THEN ret_abort ELSE ret_deinit

\* bookkeeping common to every call: the record of the call and the counter
Completes(op, arg, cap, calls, ret, msgIn) ==
    /\ alive
    /\ transportCalls + Exchanges(calls) <= MaxTransportCalls
    /\ transportCalls' = transportCalls + Exchanges(calls)
    /\ channel' = ChannelAfter(channel, calls)
    /\ last' = [op |-> op, prev |-> last.op, entryChannel |-> channel,
                entryStatus |-> session_status,
                entryInit |-> initialized, entryXfer |-> transportCalls,
                arg |-> arg, cap |-> cap, calls |-> calls, ret |-> ret,
                msgIn |-> msgIn]
    /\ UNCHANGED alive

BeginCalls_OpensChannel(r) ==
    [calls |-> <<Call("lt_init", <<>>, r),
                 Call("lt_verify_chip_and_start_secure_session", <<0>>, r)>>,
     ret |-> r]

\* begin(): return lt_init(&this->handle)
BeginCalls(r) == Delegate("lt_init", <<>>, r)

StartCalls_RejectsWhenOpen(status, pkeyIndex, r) ==
    IF status = LT_SECURE_SESSION_ON
    THEN [calls |-> <<>>, ret |-> PreconditionError]
    ELSE [calls |-> <<Call("lt_verify_chip_and_start_secure_session", <<pkeyIndex>>, r)>>,
          ret |-> r]

\* secureSessionStart(): forwards whatever the status is
StartCalls(status, pkeyIndex, r) ==
    Delegate("lt_verify_chip_and_start_secure_session", <<pkeyIndex>>, r)

begin ==
    \E r \in EngineOutcomes :
        LET d == BeginCalls(r) IN
        /\ Completes("begin", <<>>, 0, d.calls, d.ret, <<>>)
        /\ session_status' \in InitStatus(session_status, r)
        /\ initialized' = InitResources(initialized, r)

end ==
    \E ra \in EngineOutcomes, rd \in EngineOutcomes :
        LET calls == EndCalls(session_status, ra, rd)
            ret_abort == EndRetAbort(session_status, ra)
            ret_deinit == rd
        IN
        /\ Completes("end", <<>>, 0, calls, EndResult(ret_abort, ret_deinit), <<>>)
        /\ session_status' =
              IF CountFn(calls, "lt_session_abort") > 0
              THEN AbortStatus(session_status, ra) ELSE session_status
        /\ initialized' =
              IF CountFn(calls, "lt_deinit") > 0
              THEN DeinitResources(initialized, rd) ELSE initialized

secureSessionStart ==
    \E r \in EngineOutcomes, pkeyIndex \in 0..1 :
        LET d == StartCalls(session_status, pkeyIndex, r) IN
        /\ Completes("secureSessionStart", <<pkeyIndex>>, 0, d.calls, d.ret, <<>>)
        /\ session_status' \in StartStatus(session_status, r)
        /\ UNCHANGED initialized

secureSessionEnd ==
    \E r \in EngineOutcomes :
        LET d == Delegate("lt_session_abort", <<>>, r) IN
        /\ Completes("secureSessionEnd", <<>>, 0, d.calls, d.ret, <<>>)
        /\ session_status' = AbortStatus(session_status, r)
        /\ UNCHANGED initialized

ping ==
    \E r \in EngineOutcomes, msgOut \in Payloads :
        LET d == Delegate("lt_ping", msgOut, r) IN
        /\ Completes("ping", msgOut, Len(msgOut), d.calls, d.ret,
                     PingEcho(d.calls[1].arg, d.calls[1].ret))
        /\ session_status' = PrimitiveStatus(session_status, r)
        /\ UNCHANGED initialized

eccKeyGenerate ==
    \E r \in EngineOutcomes, slot \in Slots :
        LET d == Delegate("lt_ecc_key_generate", <<slot>>, r) IN
        /\ Completes("eccKeyGenerate", <<slot>>, 0, d.calls, d.ret, <<>>)
        /\ session_status' = PrimitiveStatus(session_status, r)
        /\ UNCHANGED initialized

eccKeyStore ==
    \E r \in EngineOutcomes, slot \in Slots :
        LET d == Delegate("lt_ecc_key_store", <<slot>>, r) IN
        /\ Completes("eccKeyStore", <<slot>>, 0, d.calls, d.ret, <<>>)
        /\ session_status' = PrimitiveStatus(session_status, r)
        /\ UNCHANGED initialized

eccKeyRead ==
    \E r \in EngineOutcomes, slot \in Slots, key_max_size \in BufCaps :
        LET d == Delegate("lt_ecc_key_read", <<slot, key_max_size>>, r) IN
        /\ Completes("eccKeyRead", <<slot, key_max_size>>, key_max_size, d.calls, d.ret, <<>>)
        /\ session_status' = PrimitiveStatus(session_status, r)
        /\ UNCHANGED initialized

eccKeyErase ==
    \E r \in EngineOutcomes, slot \in Slots :
        LET d == Delegate("lt_ecc_key_erase", <<slot>>, r) IN
        /\ Completes("eccKeyErase", <<slot>>, 0, d.calls, d.ret, <<>>)
        /\ session_status' = PrimitiveStatus(session_status, r)
        /\ UNCHANGED initialized

\* rs[] is passed without a length: rsCap, the size of the buffer the caller
\* really owns, is known to the caller only and never reaches the engine
ecdsaSign ==
    \E r \in EngineOutcomes, slot \in Slots, rsCap \in BufCaps, msgLen \in MsgLens :
        LET d == Delegate("lt_ecc_ecdsa_sign", <<slot, msgLen>>, r) IN
        /\ Completes("ecdsaSign", <<slot, msgLen>>, rsCap, d.calls, d.ret, <<>>)
        /\ session_status' = PrimitiveStatus(session_status, r)
        /\ UNCHANGED initialized

eddsaSign ==
    \E r \in EngineOutcomes, slot \in Slots, rsCap \in BufCaps, msg_len \in MsgLens :
        LET d == Delegate("lt_ecc_eddsa_sign", <<slot, msg_len>>, r) IN
        /\ Completes("eddsaSign", <<slot, msg_len>>, rsCap, d.calls, d.ret, <<>>)
        /\ session_status' = PrimitiveStatus(session_status, r)
        /\ UNCHANGED initialized

\* The class declares no destructor: the implicit one destroys the members
\* and calls nothing in the engine.
Destroy ==
    /\ alive
    /\ alive' = FALSE
    /\ last' = [op |-> "~Tropic01", prev |-> last.op, entryChannel |-> channel,
                entryStatus |-> session_status,
                entryInit |-> initialized, entryXfer |-> transportCalls,
                arg |-> <<>>, cap |-> 0, calls |-> <<>>, ret |-> LT_OK,
                msgIn |-> <<>>]
    /\ UNCHANGED <<session_status, initialized, transportCalls, channel>>

Next ==
    \/ begin
    \/ end
    \/ secureSessionStart
    \/ secureSessionEnd
    \/ ping
    \/ eccKeyGenerate
    \/ eccKeyStore
    \/ eccKeyRead
    \/ eccKeyErase
    \/ ecdsaSign
    \/ eddsaSign
    \/ Destroy

Spec == Init /\ [][Next]_vars

TypeOK ==
    /\ session_status \in {LT_SECURE_SESSION_OFF, LT_SECURE_SESSION_ON}
    /\ initialized \in BOOLEAN
    /\ alive \in BOOLEAN
    /\ transportCalls \in 0..MaxTransportCalls
    /\ channel \in BOOLEAN
    /\ last.ret \in EngineOutcomes \cup {PreconditionError}

----------------------------------------------------------------------------
(* Reading the record of the last call *)

Aborted(c) == CountFn(c.calls, "lt_session_abort") > 0

\* the outcome of the one call to fn made during c
RetOf(c, fn) ==
    LET i == CHOOSE j \in 1..Len(c.calls) : c.calls[j].fn = fn IN c.calls[i].ret

Closed(status) == status # LT_SECURE_SESSION_ON
Open(status) == status = LT_SECURE_SESSION_ON

----------------------------------------------------------------------------
(* Claims *)

\* C1 (as claimed): a dispatcher operation called while the status is Closed
\* returns PreconditionError and the transport call counter does not move
\* during the call.
C1_ClosedCallRejected ==
    (last.op \in DispatcherOps /\ Closed(last.entryStatus))
        => (last.ret = PreconditionError /\ transportCalls = last.entryXfer)

\* C2: end() entered with the status Open whose abort step fails returns the
\* abort's error, whatever lt_deinit returns.
C2_AbortErrorWins ==
    (last.op = "end" /\ Open(last.entryStatus) /\ Aborted(last)
        /\ RetOf(last, "lt_session_abort") # LT_OK)
        => last.ret = RetOf(last, "lt_session_abort")

C2_Witness ==
    /\ last.op = "end"
    /\ last.entryChannel
    /\ Open(last.entryStatus)
    /\ last.calls = <<Call("lt_session_abort", <<>>, ChipError),
                      Call("lt_deinit", <<>>, TransportError)>>
    /\ last.ret = ChipError

\* C3: end() whose abort step succeeded, or was skipped because the status
\* was already Closed, returns exactly what lt_deinit returned.
C3_DeinitResultReturned ==
    (last.op = "end" /\ (~Aborted(last) \/ RetOf(last, "lt_session_abort") = LT_OK))
        => (CountFn(last.calls, "lt_deinit") = 1 /\ last.ret = RetOf(last, "lt_deinit"))

C3_Witness ==
    /\ last.op = "end"
    /\ last.entryChannel
    /\ last.calls = <<Call("lt_session_abort", <<>>, LT_OK),
                      Call("lt_deinit", <<>>, TransportError)>>
    /\ last.ret = TransportError

\* C4: secureSessionStart called with the status Closed: after a success the
\* status is Open, after a failure it is still Closed.
C4_StartAllOrNothing ==
    (last.op = "secureSessionStart" /\ Closed(last.entryStatus))
        => /\ (last.ret = LT_OK => Open(session_status))
           /\ (last.ret # LT_OK => Closed(session_status))

C4_Witness ==
    /\ last.op = "secureSessionStart"
    /\ Closed(last.entryStatus)
    /\ last.ret = LT_OK
    /\ Open(session_status)

C6_RepeatedEndCallsNothing ==
    (last.op = "end" /\ last.prev = "end" /\ Closed(last.entryStatus) /\ ~last.entryInit)
        => (last.calls = <<>> /\ Closed(session_status) /\ ~initialized)

\* C6 (amended): such a repeated end() makes no abort call and leaves status
\* and resources as they were, but it does call lt_deinit once more.
C6_RepeatedEndOnlyDeinits ==
    (last.op = "end" /\ last.prev = "end" /\ Closed(last.entryStatus) /\ ~last.entryInit)
        => /\ ~Aborted(last)
           /\ CountFn(last.calls, "lt_deinit") = 1
           /\ Len(last.calls) = 1
           /\ Closed(session_status)
           /\ ~initialized

C6_Witness ==
    /\ last.op = "end"
    /\ last.prev = "end"
    /\ Closed(last.entryStatus)
    /\ ~last.entryInit
    /\ last.calls = <<Call("lt_deinit", <<>>, LT_OK)>>
    /\ ~initialized

\* C7 (as claimed): destroying the object runs the end() teardown once, so
\* no object is destroyed with the status Open or the resources held.
C7_DestroyRunsEnd ==
    (last.op = "~Tropic01")
        => /\ CountFn(last.calls, "lt_deinit") = 1
           /\ Closed(session_status)
           /\ ~initialized

\* C8 (as claimed): with the status Open, eccKeyRead of the slot one past
\* TR01_ECC_SLOT_31 returns PreconditionError and calls nothing in the engine.
C8_SlotPastLastRejected ==
    (last.op = "eccKeyRead" /\ Open(last.entryStatus)
        /\ last.arg[1] = TR01_ECC_SLOT_31 + 1)
        => (last.ret = PreconditionError /\ last.calls = <<>>)

\* C9 (as claimed): with the status Open, ecdsaSign or eddsaSign given an
\* output buffer shorter than the signature returns PreconditionError and
\* calls nothing in the engine.
C9_ShortSignatureBufferRejected ==
    (last.op \in {"ecdsaSign", "eddsaSign"} /\ Open(last.entryStatus)
        /\ last.cap < SignatureLen)
        => (last.ret = PreconditionError /\ last.calls = <<>>)

\* C10: a dispatcher operation, secureSessionStart and secureSessionEnd call
\* their engine primitive at most once, and a chip or transport error of the
\* engine is what the call returns.
C10_NoRetryNoReinterpretation ==
    (last.op \in DispatcherOps \cup {"secureSessionStart", "secureSessionEnd"})
        => /\ Len(last.calls) <= 1
           /\ \A i \in 1..Len(last.calls) :
                 last.calls[i].ret \in {ChipError, TransportError}
                     => last.ret = last.calls[i].ret

C10_Witness ==
    /\ last.op = "eccKeyErase"
    /\ last.calls = <<Call("lt_ecc_key_erase", <<0>>, ChipError)>>
    /\ last.ret = ChipError

\* C11: ping on an open session makes one lt_ping call carrying exactly the
\* outbound message and its length; when the engine succeeds the call returns
\* success and msgIn holds the echo, equal to the outbound message.
C11_PingForwardedVerbatim ==
    (last.op = "ping" /\ Open(last.entryStatus))
        => /\ last.calls = <<Call("lt_ping", last.arg, last.ret)>>
           /\ Len(last.calls[1].arg) = last.cap
           /\ (last.calls[1].ret = LT_OK => (last.ret = LT_OK /\ last.msgIn = last.arg))

C11_Witness ==
    /\ last.op = "ping"
    /\ last.entryChannel
    /\ Open(last.entryStatus)
    /\ last.arg = <<0, 1>>
    /\ last.ret = LT_OK
    /\ last.msgIn = <<0, 1>>

\* C12: secureSessionEnd called with the status Open leaves the status
\* Closed whether lt_session_abort succeeds or fails, and a failure of the
\* abort is what the call returns.
C12_SessionEndAlwaysCloses ==
    (last.op = "secureSessionEnd" /\ Open(last.entryStatus))
        => /\ Closed(session_status)
           /\ CountFn(last.calls, "lt_session_abort") = 1
           /\ (RetOf(last, "lt_session_abort") # LT_OK
                  => last.ret = RetOf(last, "lt_session_abort"))

C12_Witness ==
    /\ last.op = "secureSessionEnd"
    /\ last.entryChannel
    /\ Open(last.entryStatus)
    /\ last.ret = TransportError
    /\ Closed(session_status)

\* C13: after every end() the status is Closed, whatever the status at entry
\* and whatever the abort and deinit steps returned.
C13_EndLeavesClosed ==
    (last.op = "end") => Closed(session_status)

C13_Witness ==
    /\ last.op = "end"
    /\ last.entryChannel
    /\ Open(last.entryStatus)
    /\ last.calls = <<Call("lt_session_abort", <<>>, TransportError),
                      Call("lt_deinit", <<>>, ChipError)>>
    /\ Closed(session_status)

\* C14: every end() calls lt_deinit exactly once, also after a failed abort,
\* and when the abort step runs it is complete before lt_deinit is called.
C14_DeinitOnceAfterAbort ==
    (last.op = "end")
        => /\ CountFn(last.calls, "lt_deinit") = 1
           /\ last.calls[Len(last.calls)].fn = "lt_deinit"
           /\ (Open(last.entryStatus)
                  => (Len(last.calls) = 2 /\ last.calls[1].fn = "lt_session_abort"))

C14_Witness ==
    /\ last.op = "end"
    /\ last.entryChannel
    /\ last.calls = <<Call("lt_session_abort", <<>>, ChipError),
                      Call("lt_deinit", <<>>, LT_OK)>>
    /\ last.ret = ChipError

\* C15 (as claimed): in every reachable state, the status Open implies a
\* successful channel-open that has not been closed since, and the status
\* Closed implies that the engine has no outstanding channel.
C15_StatusMatchesChannel ==
    /\ (Open(session_status) => channel)
    /\ (Closed(session_status) => ~channel)

\* C16: begin() called with the status Closed leaves it Closed and makes no
\* channel-open call, whether lt_init succeeds or fails.
C16_BeginOpensNothing ==
    (last.op = "begin" /\ Closed(last.entryStatus))
        => /\ Closed(session_status)
           /\ CountFn(last.calls, "lt_verify_chip_and_start_secure_session") = 0
           /\ last.calls = <<Call("lt_init", <<>>, last.ret)>>

C16_Witness ==
    /\ last.op = "begin"
    /\ Closed(last.entryStatus)
    /\ last.ret = TransportError
    /\ Closed(session_status)
    /\ ~initialized

\* C17: a dispatcher operation leaves the status as it found it, whether it
\* succeeds or fails with a chip or transport error.
C17_DispatcherKeepsStatus ==
    (last.op \in DispatcherOps) => session_status = last.entryStatus

C17_Witness ==
    /\ last.op = "ecdsaSign"
    /\ last.entryChannel
    /\ last.ret = ChipError
    /\ Open(last.entryStatus)
    /\ Open(session_status)

\* C18 (as claimed): right after construction, before any operation is
\* called, the status is Closed.
C18_ConstructedClosed ==
    (last.op = "Tropic01") => Closed(session_status)

\* C19 (as claimed): secureSessionEnd called while the status is Closed
\* returns PreconditionError, makes no lt_session_abort call and causes no
\* transport traffic.
C19_SessionEndClosedRejected ==
    (last.op = "secureSessionEnd" /\ Closed(last.entryStatus))
        => /\ last.ret = PreconditionError
           /\ CountFn(last.calls, "lt_session_abort") = 0
           /\ transportCalls = last.entryXfer

\* C20: secureSessionStart called while the status is Open makes exactly one
\* channel-open call and no abort call; it returns the engine's outcome and
\* the status is the one the engine leaves.
C20_StartUnguarded ==
    (last.op = "secureSessionStart" /\ Open(last.entryStatus))
        => /\ Len(last.calls) = 1
           /\ last.calls[1].fn = "lt_verify_chip_and_start_secure_session"
           /\ last.ret = last.calls[1].ret
           /\ session_status \in StartStatus(last.entryStatus, last.calls[1].ret)

C20_Witness ==
    /\ last.op = "secureSessionStart"
    /\ last.entryChannel
    /\ Open(last.entryStatus)
    /\ last.ret = ChipError
    /\ Len(last.calls) = 1

====
